---- MODULE Spec2Model ----
(***************************************************************************)
(* Model of the NeuralNetworkViz React component                           *)
(* (src/components/NeuralNetworkViz/NeuralNetworkViz.js).                  *)
(*                                                                         *)
(* Numbers.  Every slider has step 0.01, so slider values (inputs,         *)
(* weights, biases) are held as integers counting hundredths.  Activations *)
(* are held with four decimals (ONE = 1.0000), the precision the spec      *)
(* quotes them with.  sigmoid takes its argument in millionths (ArgScale).  *)
(* Inside the feed-forward pass the unrounded binary64 values are followed *)
(* with eight decimals, and in emulated binary64 where eight decimals      *)
(* cannot tell which way the fourth decimal rounds.                        *)
(***************************************************************************)
EXTENDS Integers, Sequences, FiniteSets, TLC

\* ------------------------------------------------------------ number scales
\* step={0.01} of every Slider: one unit is 100 slider steps.
Step == 100

\* 1.0 as an activation; also the scale of a product of two slider values.
ONE == Step * Step

\* 1.0 as an argument of sigmoid (activation scale times weight scale).
ArgScale == ONE * Step

Abs(n) == IF n < 0 THEN -n ELSE n

Min(a, b) == IF a < b THEN a ELSE b

Max(a, b) == IF a > b THEN a ELSE b

\* ------------------------------------------------------ eight-decimal numbers
\* A first estimate of the logistic function is made with eight decimals in
\* one integer (Fix = 1.00000000); Tolerance bounds its error.
Fix == ONE * ONE

\* The error of Estimate, in units of 1 / Fix.
Tolerance == 50

\* a * b for a, b <= 2, cut off after eight decimals.
MulFix(a, b) ==
    LET a1 == a \div ONE
        a0 == a % ONE
        b1 == b \div ONE
        b0 == b % ONE
    IN  a1 * b1 + ((a1 * b0 + a0 * b1) + (a0 * b0) \div ONE) \div ONE

\* The Taylor series of e^(-f), 0 <= f <= 1: term = f^n / n!, acc the
\* alternating sum of the terms before term number n.
RECURSIVE FixSeries(_, _, _, _)
FixSeries(f, n, term, acc) ==
    IF term = 0 THEN acc
    ELSE FixSeries(f, n + 1, MulFix(term, f) \div (n + 1),
                   IF n % 2 = 0 THEN acc + term ELSE acc - term)

\* e^(-1).
FixEInv == FixSeries(Fix, 0, Fix, 0)

\* acc * e^(-k) for a whole number k >= 0.
RECURSIVE FixExpNegWhole(_, _)
FixExpNegWhole(k, acc) ==
    IF k = 0 \/ acc = 0 THEN acc
    ELSE FixExpNegWhole(k - 1, MulFix(acc, FixEInv))

\* num / den for num < den <= 2, cut off after `digits` more decimals.
RECURSIVE FixDiv(_, _, _, _)
FixDiv(rem, den, digits, acc) ==
    IF digits = 0 THEN acc
    ELSE FixDiv((10 * rem) % den, den, digits - 1, 10 * acc + (10 * rem) \div den)

\* 1 / (1 + Math.exp(-y / Fix)) with eight decimals, for |y| < 21 * Fix;
\* it is within Tolerance of the true value.
Estimate(y) ==
    LET a == Abs(y)
        e == FixExpNegWhole(a \div Fix, FixSeries(a % Fix, 0, Fix, 0))
    IN  IF y < 0 THEN FixDiv(e, Fix + e, 8, 0)
        ELSE IF e = 0 THEN Fix
        ELSE FixDiv(Fix, Fix + e, 8, 0)

\* Whether an eight-decimal value v known within tol fixes its own rounding
\* to four decimals: it does unless it lies within tol of a rounding tie.
Decides(v, tol) == Abs((v % ONE) - (ONE \div 2)) > tol

\* The four-decimal image of an eight-decimal result strictly inside (0, 1).
Image(v) ==
    Max(1, Min(ONE - 1, (v \div ONE) + (IF v % ONE >= ONE \div 2 THEN 1 ELSE 0)))

\* ---------------------------------------------------------------- binary64
\* Where the estimate does not decide, the pass is evaluated as the engine
\* evaluates it: in IEEE 754 binary64, every operation rounded to nearest,
\* ties to even.  A natural number of any size is a sequence of limbs, least
\* significant first, each below Limb = 2^15, without leading zero limbs.
Limb == 32768

LimbBits == 15

RECURSIVE NatNorm(_)
NatNorm(a) ==
    IF a = <<>> THEN a
    ELSE IF a[Len(a)] = 0 THEN NatNorm(SubSeq(a, 1, Len(a) - 1))
    ELSE a

\* The limbs of an integer n >= 0, and back.
RECURSIVE NatOf(_)
NatOf(n) == IF n = 0 THEN <<>> ELSE <<n % Limb>> \o NatOf(n \div Limb)

RECURSIVE NatInt(_)
NatInt(a) == IF a = <<>> THEN 0 ELSE a[1] + Limb * NatInt(Tail(a))

\* a + b + c for a carry c.
RECURSIVE NatAddC(_, _, _)
NatAddC(a, b, c) ==
    IF a = <<>> /\ b = <<>> THEN (IF c = 0 THEN <<>> ELSE <<c>>)
    ELSE LET x == (IF a = <<>> THEN 0 ELSE a[1]) + (IF b = <<>> THEN 0 ELSE b[1]) + c
         IN  <<x % Limb>> \o NatAddC(IF a = <<>> THEN a ELSE Tail(a),
                                     IF b = <<>> THEN b ELSE Tail(b),
                                     x \div Limb)

NatAdd(a, b) == NatAddC(a, b, 0)

\* a - b - c for a >= b + c and a borrow c; leading zero limbs are left in.
RECURSIVE NatSubB(_, _, _)
NatSubB(a, b, c) ==
    IF a = <<>> THEN <<>>
    ELSE LET x == a[1] - (IF b = <<>> THEN 0 ELSE b[1]) - c
         IN  <<IF x < 0 THEN x + Limb ELSE x>>
             \o NatSubB(Tail(a), IF b = <<>> THEN b ELSE Tail(b),
                        IF x < 0 THEN 1 ELSE 0)

NatSub(a, b) == NatNorm(NatSubB(a, b, 0))

\* -1, 0 or 1 as a < b, a = b or a > b.
RECURSIVE NatCmp(_, _)
NatCmp(a, b) ==
    IF Len(a) # Len(b) THEN (IF Len(a) < Len(b) THEN -1 ELSE 1)
    ELSE IF a = <<>> THEN 0
    ELSE IF a[Len(a)] # b[Len(b)] THEN (IF a[Len(a)] < b[Len(b)] THEN -1 ELSE 1)
    ELSE NatCmp(SubSeq(a, 1, Len(a) - 1), SubSeq(b, 1, Len(b) - 1))

\* a * n + c for 0 < n < Limb and a carry c.
RECURSIVE NatMulSmall(_, _, _)
NatMulSmall(a, n, c) ==
    IF a = <<>> THEN (IF c = 0 THEN <<>> ELSE <<c>>)
    ELSE LET x == a[1] * n + c
         IN  <<x % Limb>> \o NatMulSmall(Tail(a), n, x \div Limb)

\* a * Limb^k.
NatShlLimbs(a, k) == IF a = <<>> THEN a ELSE [i \in 1..k |-> 0] \o a

RECURSIVE NatMul(_, _)
NatMul(a, b) ==
    IF a = <<>> \/ b = <<>> THEN <<>>
    ELSE NatAdd(IF a[1] = 0 THEN <<>> ELSE NatMulSmall(b, a[1], 0),
                NatShlLimbs(NatMul(Tail(a), b), 1))

\* a divided by n for 0 < n <= Limb, limb i downwards: quotient and
\* remainder.
RECURSIVE NatDivSmallFrom(_, _, _, _, _)
NatDivSmallFrom(a, n, i, r, q) ==
    IF i = 0 THEN [q |-> NatNorm(q), r |-> r]
    ELSE NatDivSmallFrom(a, n, i - 1, (r * Limb + a[i]) % n,
                         <<(r * Limb + a[i]) \div n>> \o q)

NatDivSmall(a, n) == NatDivSmallFrom(a, n, Len(a), 0, <<>>)

\* a * 2^bits.
NatShl(a, bits) ==
    NatShlLimbs(NatMulSmall(a, 2 ^ (bits % LimbBits), 0), bits \div LimbBits)

\* a divided by 2^bits: the quotient, and whether a bit was shifted out.
NatShr(a, bits) ==
    LET k == Min(bits \div LimbBits, Len(a))
        d == NatDivSmall(SubSeq(a, k + 1, Len(a)), 2 ^ (bits % LimbBits))
    IN  [q |-> d.q, sticky |-> d.r # 0 \/ \E i \in 1..k : a[i] # 0]

RECURSIVE BitsSmall(_)
BitsSmall(n) == IF n = 0 THEN 0 ELSE 1 + BitsSmall(n \div 2)

\* The number of bits of a.
NatBits(a) ==
    IF a = <<>> THEN 0 ELSE LimbBits * (Len(a) - 1) + BitsSmall(a[Len(a)])

NatOdd(a) == a # <<>> /\ a[1] % 2 = 1

\* The largest d in lo..hi with d * den <= num, for lo * den <= num.
RECURSIVE NatDigit(_, _, _, _)
NatDigit(num, den, lo, hi) ==
    IF lo = hi THEN lo
    ELSE LET mid == (lo + hi + 1) \div 2
         IN  IF NatCmp(NatMulSmall(den, mid, 0), num) <= 0
             THEN NatDigit(num, den, mid, hi)
             ELSE NatDigit(num, den, lo, mid - 1)

\* Long division: the quotient of rem * Limb^limbs by den for rem < den,
\* limb by limb on top of the quotient q so far, and whether a remainder is
\* left.
RECURSIVE NatDivLimbs(_, _, _, _)
NatDivLimbs(rem, den, limbs, q) ==
    IF limbs = 0 THEN [q |-> NatNorm(q), sticky |-> rem # <<>>]
    ELSE LET num == NatShlLimbs(rem, 1)
             d == NatDigit(num, den, 0, Limb - 1)
         IN  NatDivLimbs(IF d = 0 THEN num ELSE NatSub(num, NatMulSmall(den, d, 0)),
                         den, limbs - 1, <<d>> \o q)

\* A binary64 number is a record: s says it is negative, and its magnitude
\* is m * 2^e with 2^52 <= m < 2^53, or m = <<>> for zero.  Infinities, NaN
\* and subnormal numbers do not occur in the range it is used for.
Precision == 53

Zero64 == [s |-> FALSE, m |-> <<>>, e |-> 0]

\* The significand r of a rounded result with exponent E: at most Precision
\* bits, or 2^Precision after a carry.
Normal64(neg, r, E) ==
    IF NatBits(r) > Precision
    THEN [s |-> neg, m |-> NatShr(r, 1).q, e |-> E + 1]
    ELSE [s |-> neg, m |-> r, e |-> E]

\* Rounding to nearest, ties to even: q are the bits kept, half is the first
\* bit cut off, more says whether any bit after it was set.
RoundUp64(neg, q, half, more, E) ==
    Normal64(neg, IF half /\ (more \/ NatOdd(q)) THEN NatAddC(q, <<>>, 1) ELSE q, E)

\* head.q holds the bits kept and the first bit cut off.
RoundHead64(neg, head, E, sticky) ==
    RoundUp64(neg, NatShr(head.q, 1).q, NatOdd(head.q), head.sticky \/ sticky, E)

\* M * 2^E for a natural M > 0 of n bits.
RoundBits64(neg, M, E, sticky, n) ==
    IF n <= Precision
    THEN [s |-> neg, m |-> NatShl(M, Precision - n), e |-> E - (Precision - n)]
    ELSE RoundHead64(neg, NatShr(M, n - Precision - 1), E + (n - Precision), sticky)

\* M * 2^E for a natural M > 0 (a little more than that if sticky), rounded
\* to nearest, ties to even.
Round64(neg, M, E, sticky) == RoundBits64(neg, M, E, sticky, NatBits(M))

\* The binary64 number of an integer.
Num64(k) == IF k = 0 THEN Zero64 ELSE Round64(k < 0, NatOf(Abs(k)), 0, FALSE)

\* The binary64 number of the four 16-bit words of its encoding, most
\* significant first.
Words64(w3, w2, w1, w0) ==
    [s |-> w3 >= 32768,
     m |-> NatAdd(NatShl(NatOf((w3 % 16) + 16), 48),
                  NatAdd(NatShl(NatOf(w2), 32), NatAdd(NatShl(NatOf(w1), 16), NatOf(w0)))),
     e |-> ((w3 \div 16) % 2048) - 1075]

Neg64(a) == [a EXCEPT !.s = ~@]

\* |a| < |b|.
AbsLess64(a, b) ==
    IF b.m = <<>> THEN FALSE
    ELSE IF a.m = <<>> THEN TRUE
    ELSE a.e < b.e \/ (a.e = b.e /\ NatCmp(a.m, b.m) < 0)

Mul64(a, b) ==
    IF a.m = <<>> \/ b.m = <<>> THEN [Zero64 EXCEPT !.s = (a.s # b.s)]
    ELSE Round64(a.s # b.s, NatMul(a.m, b.m), a.e + b.e, FALSE)

\* The distance of exponents from which on the smaller of two operands of a
\* sum only says on which side of the larger one the sum lies.
Far == 60

\* big + small or big - small in units of 2^E, for big >= small.
AddAligned64(neg, same, big, small, E, sticky) ==
    IF ~same /\ big = small THEN Zero64
    ELSE Round64(neg, IF same THEN NatAdd(big, small) ELSE NatSub(big, small),
                 E, sticky)

\* a + b for |a| >= |b| > 0.
AddOrdered64(a, b) ==
    AddAligned64(a.s, a.s = b.s, NatShl(a.m, Min(a.e - b.e, Far)),
                 IF a.e - b.e > Far THEN <<1>> ELSE b.m,
                 a.e - Min(a.e - b.e, Far), a.e - b.e > Far)

Add64(a, b) ==
    IF a.m = <<>> THEN (IF b.m = <<>> THEN [Zero64 EXCEPT !.s = (a.s /\ b.s)] ELSE b)
    ELSE IF b.m = <<>> THEN a
    ELSE AddOrdered64(IF AbsLess64(a, b) THEN b ELSE a,
                      IF AbsLess64(a, b) THEN a ELSE b)

Sub64(a, b) == Add64(a, Neg64(b))

\* The limbs of quotient a division works out beyond the leading bit: more
\* bits than a binary64 number holds.
QuotientLimbs == 4

\* The quotient d of the significands, rounded.
Quotient64(neg, d, E) == Round64(neg, d.q, E, d.sticky)

\* a / b for a # 0 and b # 0; lead says whether the quotient of the
\* significands reaches 1.
DivLead64(a, b, lead) ==
    Quotient64(a.s # b.s,
               NatDivLimbs(IF lead THEN NatSub(a.m, b.m) ELSE a.m, b.m,
                           QuotientLimbs, IF lead THEN <<1>> ELSE <<>>),
               a.e - b.e - QuotientLimbs * LimbBits)

\* a / b for b # 0.
Div64(a, b) ==
    IF a.m = <<>> THEN [Zero64 EXCEPT !.s = (a.s # b.s)]
    ELSE DivLead64(a, b, NatCmp(a.m, b.m) >= 0)

\* The integer part of a, for |a| < 2^31.
Trunc64(a) ==
    IF a.m = <<>> \/ a.e <= -Precision THEN 0
    ELSE LET v == NatInt(NatShr(a.m, -a.e).q)
         IN  IF a.s THEN -v ELSE v

One64 == Num64(1)

Two64 == Num64(2)

\* ln2HI = 6.93147180369123816490e-01 (0x3fe62e42 0xfee00000).
Ln2Hi == Words64(16358, 11842, 65248, 0)

\* ln2LO = 1.90821492927058770002e-10 (0x3dea39ef 0x35793c76).
Ln2Lo == Words64(15850, 14831, 13689, 15478)

\* invln2 = 1.44269504088896338700e+00 (0x3ff71547 0x652b82fe).
InvLn2 == Words64(16375, 5447, 25899, 33534)

\* P1 = 1.66666666666666019037e-01 (0x3fc55555 0x5555553e).
P1 == Words64(16325, 21845, 21845, 21822)

\* P2 = -2.77777777770155933842e-03 (0xbf66c16c 0x16bebd93).
P2 == Words64(48998, 49516, 5822, 48531)

\* P3 = 6.61375632143793436117e-05 (0x3f11566a 0xaf25de2c).
P3 == Words64(16145, 22122, 44837, 56876)

\* P4 = -1.65339022054652515390e-06 (0xbebbbd41 0xc5d26bf1).
P4 == Words64(48827, 48449, 50642, 27633)

\* P5 = 4.13813679705723846039e-08 (0x3e663769 0x72bea4d0).
P5 == Words64(15974, 14185, 29374, 42192)

\* E = 2.718281828459045, returned for x = 1 (0x4005bf0a 0x8b145769).
Euler == Words64(16389, 48906, 35604, 22377)

\* The least |x| whose high word exceeds 0x3fd62e42, about 0.5 ln 2
\* (0x3fd62e43 0x00000000).
HalfLn2 == Words64(16342, 11843, 0, 0)

\* The least |x| whose high word reaches 0x3ff0a2b2, about 1.5 ln 2
\* (0x3ff0a2b2 0x00000000).
OneHalfLn2 == Words64(16368, 41650, 0, 0)

\* 2^-28 (0x3e300000 0x00000000).
Tiny == Words64(15920, 0, 0, 0)

Half64 == [One64 EXCEPT !.e = @ - 1]

\* c = x - t*(P1+t*(P2+t*(P3+t*(P4+t*P5)))) for t = x*x.
ExpPoly(x, t) ==
    Sub64(x, Mul64(t, Add64(P1, Mul64(t, Add64(P2, Mul64(t,
          Add64(P3, Mul64(t, Add64(P4, Mul64(t, P5))))))))))

\* k = 0: return one-((x*c)/(c-2.0)-x).
ExpUnscaled(x, c) == Sub64(One64, Sub64(Div64(Mul64(x, c), Sub64(c, Two64)), x))

\* y = one-((lo-(x*c)/(2.0-c))-hi), scaled by 2^k.
ExpScaled(hi, lo, k, x, c) ==
    [Sub64(One64, Sub64(Sub64(lo, Div64(Mul64(x, c), Sub64(Two64, c))), hi))
        EXCEPT !.e = @ + k]

ExpReduced(hi, lo, k, x) == ExpScaled(hi, lo, k, x, ExpPoly(x, Mul64(x, x)))

\* x = hi - lo.
ExpParts(hi, lo, k) == ExpReduced(hi, lo, k, Sub64(hi, lo))

\* hi = x - t*ln2HI; lo = t*ln2LO, for t = k.
ExpWhole(x, k) ==
    ExpParts(Sub64(x, Mul64(Num64(k), Ln2Hi)), Mul64(Num64(k), Ln2Lo), k)

\* Math.exp(x) for |x| < 709, as V8 evaluates it (ieee754::exp, the fdlibm
\* algorithm): x = k ln 2 + r with |r| <= 0.5 ln 2, e^r from a rational
\* approximation, the result scaled by 2^k.
Exp64(x) ==
    IF AbsLess64(x, Tiny) THEN Add64(One64, x)
    ELSE IF AbsLess64(x, HalfLn2) THEN ExpUnscaled(x, ExpPoly(x, Mul64(x, x)))
    ELSE IF x = One64 THEN Euler
    ELSE IF AbsLess64(x, OneHalfLn2)
    THEN ExpParts(Sub64(x, [Ln2Hi EXCEPT !.s = x.s]), [Ln2Lo EXCEPT !.s = x.s],
                  IF x.s THEN -1 ELSE 1)
    ELSE ExpWhole(x, Trunc64(Add64(Mul64(InvLn2, x), [Half64 EXCEPT !.s = x.s])))

\* const sigmoid = (x) => 1 / (1 + Math.exp(-x)), on binary64 numbers.
Sigmoid64(x) == Div64(One64, Add64(One64, Exp64(Neg64(x))))

\* The integer nearest to a * 10^4 for 0 <= a <= 1, the larger one of two
\* equally near: the digits toFixed(4) gives.
ToFixed4(a) ==
    IF a.m = <<>> THEN 0
    ELSE (NatInt(NatShr(NatMulSmall(a.m, ONE, 0), -a.e - 1).q) + 1) \div 2

\* A slider value of k hundredths as the slider reports it: the binary64
\* number nearest to k / 100.
Hundredths64(k) == Div64(Num64(k), Num64(Step))

\* Math.exp(y) is Infinity for y > 709.782712893384: arguments in millionths
\* from here on overflow.
ExpOverflowArg == 709782713

\* 1 + Math.exp(-x) rounds to exactly 1 when e^(-x) <= 2^(-53), that is for
\* x >= 53 ln 2 = 36.7368005696771: arguments in millionths from here on.
AbsorbArg == 36736801

\* The four-decimal image of a result strictly inside (0, 1): it is kept
\* off the two endpoints, so that the image is 0 or ONE exactly when the
\* binary64 result is.
Inside(v) == Max(1, Min(ONE - 1, v))

\* From 21 on either side of 0 a result strictly inside (0, 1) is within
\* 10^-9 of an endpoint: arguments in millionths.
EstimateRange == 21 * ArgScale

\* The four decimals of a result strictly inside (0, 1): those of its
\* eight-decimal estimate, known within tol, if that decides, else those of
\* the binary64 number.
Settled(estimate, tol, exact) ==
    IF Decides(estimate, tol) THEN Image(estimate) ELSE Inside(ToFixed4(exact))

\* sigmoid of an argument of x millionths strictly inside (0, 1), with four
\* decimals.
SigmoidInside(x) ==
    IF Abs(x) >= EstimateRange THEN (IF x > 0 THEN ONE - 1 ELSE 1)
    ELSE Settled(Estimate(x * Step), Tolerance,
                 Sigmoid64(Div64(Num64(x), Num64(ArgScale))))

SigmoidNoNegation(x) ==
    IF x >= ExpOverflowArg THEN 0
    ELSE IF -x >= AbsorbArg THEN ONE
    ELSE SigmoidInside(-x)

\* ------------------------------------------------------------------ sigmoid
\* const sigmoid = (x) => 1 / (1 + Math.exp(-x));
\* x is in millionths, the result has four decimals.  Three regimes of the
\* binary64 evaluation:
\*   Math.exp(-x) = Infinity          -> 1 / Infinity = 0 exactly;
\*   1 + Math.exp(-x) = 1 (absorbed)  -> 1 / 1 = 1 exactly;
\*   otherwise the quotient is a double strictly inside (0, 1).
sigmoid(x) ==
    IF -x >= ExpOverflowArg THEN 0
    ELSE IF x >= AbsorbArg THEN ONE
    ELSE SigmoidInside(x)

\* ------------------------------------------------------------- the network
InputKeys == {"A", "B"}

WeightKeys == {"A->H1", "A->H2", "B->H1", "B->H2", "H1->O", "H2->O"}

BiasKeys == {"H1", "H2", "O"}

\* useState initial values.
InitialWeights == [k \in WeightKeys |-> 50]

InitialBiases == [k \in BiasKeys |-> 0]

InitialInputs == [k \in InputKeys |-> 0]

CalcNoOutputSigmoid(inp, wts, bs) ==
    LET h1 == sigmoid((inp["A"] * wts["A->H1"] + inp["B"] * wts["B->H1"]
                       + bs["H1"] * Step) * Step)
        h2 == sigmoid((inp["A"] * wts["A->H2"] + inp["B"] * wts["B->H2"]
                       + bs["H2"] * Step) * Step)
    IN  [H1 |-> h1, H2 |-> h2,
         O |-> (h1 * wts["H1->O"] + h2 * wts["H2->O"] + bs["O"] * ONE) \div Step]

\* o_input for the eight-decimal estimates h1, h2, in units of 1 / Fix.
OutputEstimate(h1, h2, wH1O, wH2O, bO) ==
    ((h1 \div ONE) * wH1O + (h2 \div ONE) * wH2O) * Step
    + ((h1 % ONE) * wH1O + (h2 % ONE) * wH2O) \div Step
    + bO * ArgScale

\* sigmoid(x1 * w1 + x2 * w2 + b) on binary64 numbers, operation by
\* operation.
Neuron64(x1, w1, x2, w2, b) ==
    Sigmoid64(Add64(Add64(Mul64(x1, w1), Mul64(x2, w2)), b))

\* The state objects as the sliders fill them.
Numbers64(values) == [k \in DOMAIN values |-> Hundredths64(values[k])]

\* The output layer, from the unrounded hidden activations.
Output64(h1_activation, h2_activation, wts, bs) ==
    [H1 |-> h1_activation, H2 |-> h2_activation,
     O |-> Neuron64(h1_activation, wts["H1->O"], h2_activation, wts["H2->O"],
                    bs["O"])]

Forward64(inp, wts, bs) ==
    Output64(Neuron64(inp["A"], wts["A->H1"], inp["B"], wts["B->H1"], bs["H1"]),
             Neuron64(inp["A"], wts["A->H2"], inp["B"], wts["B->H2"], bs["H2"]),
             wts, bs)

\* calculateActivations on binary64 numbers.
Activations64(inp, wts, bs) ==
    Forward64(Numbers64(inp), Numbers64(wts), Numbers64(bs))

\* The three activations with four decimals, from the estimates of the
\* hidden activations and the binary64 pass.
Activations4(h1_estimate, h2_estimate, wH1O, wH2O, bO, exact) ==
    [H1 |-> Settled(h1_estimate, Tolerance, exact.H1),
     H2 |-> Settled(h2_estimate, Tolerance, exact.H2),
     O |-> Settled(Estimate(OutputEstimate(h1_estimate, h2_estimate,
                                           wH1O, wH2O, bO)),
                   2 * Tolerance, exact.O)]

\* calculateActivations: the feed-forward pass.  h1_input and h2_input are
\* sums of products of slider values (scale ONE); the hidden activations
\* enter o_input unrounded; the three activations are returned with four
\* decimals.  Each activation is estimated with eight decimals first, and
\* evaluated in binary64 where the estimate is too close to a rounding tie
\* to fix the fourth decimal.
calculateActivations(inp, wts, bs) ==
    LET A == inp["A"]
        B == inp["B"]
        wAH1 == wts["A->H1"]
        wAH2 == wts["A->H2"]
        wBH1 == wts["B->H1"]
        wBH2 == wts["B->H2"]
        wH1O == wts["H1->O"]
        wH2O == wts["H2->O"]
        bH1 == bs["H1"]
        bH2 == bs["H2"]
        bO == bs["O"]
        h1_input == A * wAH1 + B * wBH1 + bH1 * Step
        h2_input == A * wAH2 + B * wBH2 + bH2 * Step
    IN  Activations4(Estimate(h1_input * ONE), Estimate(h2_input * ONE),
                     wH1O, wH2O, bO, Activations64(inp, wts, bs))

\* ---------------------------------------------------------------- rendering
ColorAlwaysGreen(weight) ==
    LET intensity == Min(Abs(weight), Step)
    IN  [r |-> 0, g |-> 150 * Step + 105 * intensity, b |-> 0, a |-> intensity]

\* getWeightColor: the rgba() string as its four components, each in
\* hundredths (the weight is in hundredths).
getWeightColor(weight) ==
    LET intensity == Min(Abs(weight), Step)
    IN  IF weight > 0
        THEN [r |-> 0, g |-> 150 * Step + 105 * intensity, b |-> 0, a |-> intensity]
        ELSE IF weight < 0
        THEN [r |-> 150 * Step + 105 * intensity, g |-> 0, b |-> 0, a |-> intensity]
        ELSE [r |-> 100 * Step, g |-> 100 * Step, b |-> 100 * Step, a |-> 50]

\* What one render closes over: drawNetwork and calculateActivations are
\* useCallback closures over the inputs, weights and biases of their render.
Snapshot(inp, wts, bs, act) ==
    [inputs |-> inp, weights |-> wts, biases |-> bs, activations |-> act]

\* The five nodes drawNetwork lays out.
Nodes == {"A", "B", "H1", "H2", "O"}

\* The canvas before anything was drawn on it.
Blank == [painted |-> FALSE]

\* The picture drawNetwork paints from a snapshot: six edges coloured by
\* weight and labelled weight.toFixed(2), five nodes with their values.
Picture(snap) ==
    [painted |-> TRUE,
     edgeColor |-> [k \in WeightKeys |-> getWeightColor(snap.weights[k])],
     edgeLabel |-> [k \in WeightKeys |-> snap.weights[k]],
     nodeValue |-> [k \in Nodes |->
                      IF k \in InputKeys THEN snap.inputs[k] * Step
                      ELSE snap.activations[k]]]

\* The drawing surface: canvasRef.current may be null, and getContext('2d')
\* may return null.
Surfaces == {"ok", "nocanvas", "nocontext"}

DrawUnguarded(surf, snap, canvas) ==
    IF surf = "ok" THEN [drawn |-> Picture(snap), threw |-> FALSE]
    ELSE [drawn |-> canvas, threw |-> TRUE]

\* drawNetwork: the two early returns, then the painting.  threw tells
\* whether the call raised an exception.
drawNetwork(surf, snap, canvas) ==
    IF surf = "nocanvas" THEN [drawn |-> canvas, threw |-> FALSE]
    ELSE IF surf = "nocontext" THEN [drawn |-> canvas, threw |-> FALSE]
    ELSE [drawn |-> Picture(snap), threw |-> FALSE]

\* ----------------------------------------------------------------- sliders
\* The three groups of state, each with its own debounced setter.
Setters == {"inputs", "weights", "biases"}

\* min= and max= of the Slider of each group, in hundredths.
SliderMin(group) ==
    IF group = "inputs" THEN 0 ELSE IF group = "weights" THEN -100 ELSE -200

SliderMaxAllWide(group) == IF group = "inputs" THEN 100 ELSE 200

SliderMax(group) ==
    IF group = "inputs" THEN 100 ELSE IF group = "weights" THEN 100 ELSE 200

\* Where between its two ends the model lets a slider be put, in percent
\* of its range.
SliderPercent == 50

\* The values a slider can report are the multiples of its step between min
\* and max.  The model lets the user pick the two ends and the value
\* SliderPercent of the way between them.
SliderValues(group) ==
    {SliderMin(group),
     SliderMin(group)
        + ((SliderMax(group) - SliderMin(group)) * SliderPercent) \div 100,
     SliderMax(group)}

SliderSetterCrossed(group) == IF group = "biases" THEN "weights" ELSE group

\* The debounced setter the onChange of a group's sliders calls.
SliderSetter(group) == group

\* ---------------------------------------------------------------- debounce
\* debounce(func, 100): trailing edge only.
Wait == 100

\* The time one step of the clock advances, in ms.
Tick == 50

\* A debounced function with no call waiting (lastArgs undefined, no timer).
Idle == [pending |-> FALSE, key |-> "", value |-> 0, since |-> 0]

\* No state setter has an update queued for React's next render.
NoUpdates == [s \in Setters |-> <<>>]

\* The state the handlers work on: the three state objects, the three
\* debounced setters, and per state setter the updater functions it has
\* queued for React's next render, each as its (key, value).
NetOf(inp, wts, bs, d, q) ==
    [inputs |-> inp, weights |-> wts, biases |-> bs, deb |-> d, updates |-> q]

\* (prev) => ({ ...prev, [key]: newValue }): a key prev lacks is added.
SetKey(prev, key, newValue) ==
    [k \in DOMAIN prev \cup {key} |-> IF k = key THEN newValue ELSE prev[k]]

DebouncedKeepsFirstArgs(n, setter, key, newValue) ==
    [n EXCEPT !.deb[setter] =
        IF @.pending THEN [@ EXCEPT !.since = 0]
        ELSE [pending |-> TRUE, key |-> key, value |-> newValue, since |-> 0]]

\* A call of a debounced setter: it records the arguments and the time of
\* the call, superseding the call that was waiting; no state setter is
\* called.
debouncedCall(n, setter, key, newValue) ==
    [n EXCEPT !.deb[setter] =
        [pending |-> TRUE, key |-> key, value |-> newValue, since |-> 0]]

\* The timer of a debounced setter is due: wait ms have passed since its
\* last call.
Due(n, setter) == n.deb[setter].pending /\ n.deb[setter].since >= Wait

\* The trailing edge: func is invoked once with the last arguments, and the
\* debounced function is idle again.  func calls the state setter with an
\* updater function, which React queues.
invokeFunc(n, setter) ==
    [n EXCEPT !.deb[setter] = Idle,
              !.updates[setter] =
                  Append(@, [key |-> n.deb[setter].key,
                             value |-> n.deb[setter].value])]

\* The queued updater functions of one state setter, run in their order on
\* the state object prev.
RECURSIVE RunUpdaters(_, _)
RunUpdaters(prev, q) ==
    IF q = <<>> THEN prev
    ELSE RunUpdaters(SetKey(prev, Head(q).key, Head(q).value), Tail(q))

\* React renders: every queued updater runs, and the queues are empty.
processUpdates(n) ==
    [n EXCEPT !.inputs = RunUpdaters(@, n.updates["inputs"]),
              !.weights = RunUpdaters(@, n.updates["weights"]),
              !.biases = RunUpdaters(@, n.updates["biases"]),
              !.updates = NoUpdates]

\* dt ms pass: every waiting call is dt ms older.
advance(n, dt) ==
    [n EXCEPT !.deb = [s \in Setters |->
        IF n.deb[s].pending
        THEN [n.deb[s] EXCEPT !.since = Min(Wait, @ + dt)]
        ELSE n.deb[s]]]

ResetKeepsBiases(n) ==
    [n EXCEPT !.inputs = [k \in {"A", "B"} |-> 0],
              !.weights = [k \in {"A->H1", "A->H2", "B->H1", "B->H2",
                                  "H1->O", "H2->O"} |-> 50],
              !.updates = NoUpdates]

\* resetAll: the three state objects are replaced by literals.  The click
\* is rendered at once; updater functions queued before it run before the
\* literals replace their results, so nothing of them is left.
resetAll(n) ==
    [n EXCEPT !.inputs = [k \in {"A", "B"} |-> 0],
              !.weights = [k \in {"A->H1", "A->H2", "B->H1", "B->H2",
                                  "H1->O", "H2->O"} |-> 50],
              !.biases = [k \in {"H1", "H2", "O"} |-> 0],
              !.updates = NoUpdates]

\* -------------------------------------------------------------------- state
VARIABLES
    inputs,        \* useState: {A, B}
    weights,       \* useState: the six weights
    biases,        \* useState: {H1, H2, O}
    deb,           \* the three debounced setters
    updates,       \* the updater functions queued for React's next render
    activations,   \* useMemo(calculateActivations), as of the last render
    isFloating,    \* useState, as of the last render
    dragPosition,  \* useState: {x, y}, as of the last render
    floatUpdates,  \* the values queued for isFloating and dragPosition
    surface,       \* the drawing surface drawNetwork finds
    drawn,         \* what is painted on the canvas
    raf,           \* the animation frame the drawNetwork effect requested
    effect,        \* a committed render whose drawNetwork effect has not run yet
    threw,         \* some handler raised an exception
    events,        \* number of user events so far
    hist,          \* the last step taken
    burst,         \* per setter: its last call and what followed it
    user,          \* what the user did since the last reset
    probe,         \* a function under test with its arguments and result
    order          \* two runs making the same two slider changes in either order

prog == <<inputs, weights, biases, deb, updates, activations, isFloating,
          dragPosition, floatUpdates, surface, drawn, raf, effect, threw,
          events, hist, burst, user>>

vars == <<prog, probe, order>>

\* The number of user events (slider changes, resets, scrolls, drags, Return
\* clicks) in one run.
MaxEvents == 2

\* The largest drag offset, in pixels.
MaxDrag == 1

Net == NetOf(inputs, weights, biases, deb, updates)

\* Nothing is queued for isFloating or for dragPosition.
NoFloatUpdates == [isFloating |-> <<>>, dragPosition |-> <<>>]

\* The part of the state the floating canvas is about: isFloating and
\* dragPosition as the last render has them, which is what the handlers of
\* that render read, and the values queued for them since.  The root is
\* made with createRoot, so a value set from an observer callback or from a
\* mouse move is queued and rendered later, on another turn of the event
\* loop; handlers of the last render can run in between.
Floating ==
    [isFloating |-> isFloating, dragPosition |-> dragPosition,
     queue |-> floatUpdates]

\* The IntersectionObserver callback: setIsFloating is called with true or
\* with false, and React queues the value.
observerCallback(f, isIntersecting) ==
    [f EXCEPT !.queue.isFloating =
        Append(@, IF ~isIntersecting THEN TRUE ELSE FALSE)]

\* handleReturn: the drag position is reset, then floating ends.  The click
\* is rendered at once; values queued before it for these two states are
\* replaced by the ones the click sets, so nothing of them is left.
handleReturn(f) ==
    [isFloating |-> FALSE, dragPosition |-> [x |-> 0, y |-> 0],
     queue |-> NoFloatUpdates]

\* onDrag(e, data) with data = {x, y}: the isFloating it tests is the one of
\* the render the handler belongs to; setDragPosition queues the position.
onDrag(f, x, y) ==
    IF f.isFloating
    THEN [f EXCEPT !.queue.dragPosition = Append(@, [x |-> x, y |-> y])]
    ELSE f

\* The values queued for one state, taken in their order: each replaces the
\* state.
RECURSIVE RunValues(_, _)
RunValues(prev, q) ==
    IF q = <<>> THEN prev ELSE RunValues(Head(q), Tail(q))

\* React renders: the queued values become the state, and the queues are
\* empty.
renderFloating(f) ==
    [isFloating |-> RunValues(f.isFloating, f.queue.isFloating),
     dragPosition |-> RunValues(f.dragPosition, f.queue.dragPosition),
     queue |-> NoFloatUpdates]

\* Bookkeeping for one setter: the arguments of its last call, the time
\* since that call, whether that call superseded one still waiting, and how
\* often func was invoked since.
NoBurst ==
    [called |-> FALSE, key |-> "", value |-> 0, age |-> 0, invoked |-> 0,
     superseded |-> FALSE]

\* The controls are the sliders: a group and a key of its state object.
\* lastSet maps each control moved since the last reset (or since mounting)
\* to the value it was last moved to; afterReset says that Reset was pressed
\* and no slider was moved since.
NoUser == [afterReset |-> FALSE, lastSet |-> [c \in {} |-> 0]]

UserSet(u, group, key, newValue) ==
    [afterReset |-> FALSE,
     lastSet |-> [c \in DOMAIN u.lastSet \cup {<<group, key>>} |->
                    IF c = <<group, key>> THEN newValue ELSE u.lastSet[c]]]

UserReset == [afterReset |-> TRUE, lastSet |-> [c \in {} |-> 0]]

NoProbe == [fn |-> "none", done |-> TRUE, args |-> <<>>, out |-> <<>>]

NoOrder == [made |-> 0]

\* The state after mounting, given the drawing surface found: the first
\* render, the first drawNetwork and the first requested frame.
Mounted(surf) ==
    LET act == calculateActivations(InitialInputs, InitialWeights, InitialBiases)
        snap == Snapshot(InitialInputs, InitialWeights, InitialBiases, act)
    IN  /\ inputs = InitialInputs
        /\ weights = InitialWeights
        /\ biases = InitialBiases
        /\ deb = [s \in Setters |-> Idle]
        /\ updates = NoUpdates
        /\ activations = act
        /\ isFloating = FALSE
        /\ dragPosition = [x |-> 0, y |-> 0]
        /\ floatUpdates = NoFloatUpdates
        /\ surface = surf
        /\ drawn = drawNetwork(surface, snap, Blank).drawn
        /\ threw = drawNetwork(surface, snap, Blank).threw
        /\ raf = [pending |-> TRUE, snap |-> snap]
        /\ effect = FALSE
        /\ events = 0
        /\ hist = [op |-> "mount", setter |-> "", changed |-> FALSE]
        /\ burst = [s \in Setters |-> NoBurst]
        /\ user = NoUser

\* In a browser the canvas is mounted and has a 2d context.
Init == Mounted("ok") /\ probe = NoProbe /\ order = NoOrder

\* Environments in which the drawing surface is missing.
InitNoSurface ==
    /\ \E surf \in Surfaces \ {"ok"} : Mounted(surf)
    /\ probe = NoProbe
    /\ order = NoOrder

\* What drawNetwork of the current render draws.
Current == Snapshot(inputs, weights, biases, activations)

\* The handlers' part of the state becomes n, and nothing is rendered.
Keep(n) ==
    /\ inputs' = n.inputs
    /\ weights' = n.weights
    /\ biases' = n.biases
    /\ deb' = n.deb
    /\ updates' = n.updates
    /\ UNCHANGED <<activations, drawn, raf, effect, threw>>

RerenderStaleBiases(n) ==
    /\ inputs' = n.inputs
    /\ weights' = n.weights
    /\ biases' = n.biases
    /\ deb' = n.deb
    /\ updates' = n.updates
    /\ activations' = IF n.inputs # inputs \/ n.weights # weights
                      THEN calculateActivations(n.inputs, n.weights, n.biases)
                      ELSE activations

\* The component re-renders with the handlers' part of the state n: the
\* state objects are new objects, so useCallback makes a new
\* calculateActivations and useMemo recomputes the activations.
Rerender(n) ==
    /\ inputs' = n.inputs
    /\ weights' = n.weights
    /\ biases' = n.biases
    /\ deb' = n.deb
    /\ updates' = n.updates
    /\ activations' = calculateActivations(n.inputs, n.weights, n.biases)

\* The drawNetwork effect of the render that is being committed runs: the
\* cleanup of the effect before it cancels the frame that effect requested,
\* then drawNetwork draws and a frame is requested for it.
RunEffect ==
    LET res == drawNetwork(surface, Current', drawn)
    IN  /\ drawn' = res.drawn
        /\ threw' = (threw \/ res.threw)
        /\ raf' = [pending |-> TRUE, snap |-> Current']
        /\ effect' = FALSE

\* The values held in the state objects of n differ from the current ones.
Differs(n) ==
    n.inputs # inputs \/ n.weights # weights \/ n.biases # biases

\* onChange of the slider `key` of a group: the debounced setter is called.
SliderChange(group, key, newValue) ==
    /\ events < MaxEvents
    /\ Keep(debouncedCall(Net, SliderSetter(group), key, newValue))
    /\ events' = events + 1
    /\ hist' = [op |-> "call", setter |-> SliderSetter(group), changed |-> FALSE]
    /\ burst' = [burst EXCEPT ![SliderSetter(group)] =
                    [called |-> TRUE, key |-> key, value |-> newValue,
                     age |-> 0, invoked |-> 0,
                     superseded |-> (@.called /\ @.invoked = 0)]]
    /\ user' = UserSet(user, group, key, newValue)
    /\ UNCHANGED <<isFloating, dragPosition, floatUpdates, surface, probe,
                   order>>

\* The timer of a debounced setter fires: func calls the state setter, which
\* queues the updater function and asks React for a render.
TimerExpired(setter) ==
    /\ Due(Net, setter)
    /\ Keep(invokeFunc(Net, setter))
    /\ hist' = [op |-> "invoke", setter |-> setter, changed |-> FALSE]
    /\ burst' = [burst EXCEPT ![setter].invoked = Min(2, @ + 1)]
    /\ UNCHANGED <<isFloating, dragPosition, floatUpdates, surface, events,
                   user, probe, order>>

\* React renders what is queued, the updater functions of the debounced
\* setters and the values set for isFloating and dragPosition alike, and
\* commits the result.  The state objects are new objects when an updater
\* ran, and only then the activations are recomputed and drawNetwork and its
\* effect are made anew.  useEffect is a passive effect: after an update
\* made from a timer the drawNetwork effect runs later, on a turn of the
\* event loop of its own, and before the next render.
Commit ==
    /\ ~effect
    /\ updates # NoUpdates \/ floatUpdates # NoFloatUpdates
    /\ IF updates # NoUpdates
       THEN /\ Rerender(processUpdates(Net))
            /\ effect' = TRUE
       ELSE UNCHANGED <<inputs, weights, biases, deb, updates, activations,
                        effect>>
    /\ isFloating' = renderFloating(Floating).isFloating
    /\ dragPosition' = renderFloating(Floating).dragPosition
    /\ floatUpdates' = renderFloating(Floating).queue
    /\ hist' = [op |-> "commit", setter |-> "",
                changed |-> Differs(processUpdates(Net))]
    /\ UNCHANGED <<surface, drawn, raf, threw, events, burst, user, probe,
                   order>>

\* The drawNetwork effect of the committed render runs.
DrawEffect ==
    /\ effect
    /\ UNCHANGED <<inputs, weights, biases, deb, updates, activations,
                   isFloating, dragPosition, floatUpdates, surface, events,
                   burst, user, probe, order>>
    /\ RunEffect
    /\ hist' = [op |-> "effect", setter |-> "", changed |-> FALSE]

\* Time passes while some call is waiting.  What is shorter than Tick comes
\* first: a timer that is due fires, React renders and runs effects, and a
\* requested animation frame arrives.
Clock ==
    /\ \E s \in Setters : deb[s].pending
    /\ \A s \in Setters : ~Due(Net, s)
    /\ updates = NoUpdates
    /\ floatUpdates = NoFloatUpdates
    /\ ~effect
    /\ ~raf.pending
    /\ Keep(advance(Net, Tick))
    /\ hist' = [op |-> "tick", setter |-> "", changed |-> FALSE]
    /\ burst' = [s \in Setters |->
                    IF burst[s].called
                    THEN [burst[s] EXCEPT !.age = Min(Wait, @ + Tick)]
                    ELSE burst[s]]
    /\ UNCHANGED <<isFloating, dragPosition, floatUpdates, surface, events,
                   user, probe, order>>

\* onClick of "Reset to Defaults".  An update made from a click is rendered
\* and committed within the click, and so is its drawNetwork effect (an
\* effect still waiting runs before the render, and is drawn over).  What is
\* queued for isFloating and dragPosition is not of the click and stays
\* queued for the render after it.
ResetAll ==
    /\ events < MaxEvents
    /\ Rerender(resetAll(Net))
    /\ RunEffect
    /\ events' = events + 1
    /\ hist' = [op |-> "resetAll", setter |-> "",
                changed |-> Differs(resetAll(Net))]
    /\ user' = UserReset
    /\ UNCHANGED <<isFloating, dragPosition, floatUpdates, surface, burst,
                   probe, order>>

\* The requested animation frame arrives: drawNetwork of that render runs.
AnimationFrame ==
    /\ raf.pending
    /\ LET res == drawNetwork(surface, raf.snap, drawn)
       IN  /\ drawn' = res.drawn
           /\ threw' = (threw \/ res.threw)
    /\ raf' = [raf EXCEPT !.pending = FALSE]
    /\ hist' = [op |-> "frame", setter |-> "", changed |-> FALSE]
    /\ UNCHANGED <<inputs, weights, biases, deb, updates, activations,
                   isFloating, dragPosition, floatUpdates, surface, effect,
                   events, burst, user, probe, order>>

\* The floating part of the state becomes f; the network is left alone.
Float(f, op) ==
    /\ isFloating' = f.isFloating
    /\ dragPosition' = f.dragPosition
    /\ floatUpdates' = f.queue
    /\ events' = events + 1
    /\ hist' = [op |-> op, setter |-> "", changed |-> FALSE]
    /\ UNCHANGED <<inputs, weights, biases, deb, updates, activations, surface,
                   burst, user, probe, order>>

\* A click is rendered within the click: a drawNetwork effect still waiting
\* runs before that render.  The render of a click that sets isFloating and
\* dragPosition alone keeps the state objects, so it makes no new
\* drawNetwork and no new effect.
RenderClick ==
    IF effect THEN RunEffect ELSE UNCHANGED <<drawn, raf, effect, threw>>

\* The IntersectionObserver callback.  It runs outside a click: nothing is
\* rendered and no effect runs.
ObserverCallback(isIntersecting) ==
    /\ events < MaxEvents
    /\ Float(observerCallback(Floating, isIntersecting), "observer")
    /\ UNCHANGED <<drawn, raf, effect, threw>>

\* onClick of "Return", a button the last render made only if it rendered
\* floating.
HandleReturn ==
    /\ events < MaxEvents
    /\ isFloating
    /\ Float(handleReturn(Floating), "handleReturn")
    /\ RenderClick

\* onDrag of the Draggable.  The Draggable is disabled while not floating,
\* which keeps a drag from starting; a drag under way goes on reporting its
\* moves whatever is rendered.  Nothing is rendered within a mouse move.
OnDrag(x, y) ==
    /\ events < MaxEvents
    /\ Float(onDrag(Floating, x, y), "onDrag")
    /\ UNCHANGED <<drawn, raf, effect, threw>>

\* The sliders rendered for a group: one per entry of its state object
\* (the weights in two sections, filtered by '->H' and by '->O').
SliderKeys(group) ==
    IF group = "inputs" THEN DOMAIN inputs
    ELSE IF group = "biases" THEN DOMAIN biases
    ELSE {k \in DOMAIN weights : k \in {"A->H1", "A->H2", "B->H1", "B->H2"}}
         \cup {k \in DOMAIN weights : k \in {"H1->O", "H2->O"}}

Next ==
    \/ \E group \in Setters : \E key \in SliderKeys(group) :
          \E v \in SliderValues(group) : SliderChange(group, key, v)
    \/ \E s \in Setters : TimerExpired(s)
    \/ Commit
    \/ DrawEffect
    \/ Clock
    \/ ResetAll
    \/ AnimationFrame
    \/ \E b \in BOOLEAN : ObserverCallback(b)
    \/ HandleReturn
    \/ \E d \in 1..MaxDrag : OnDrag(d, -d)

Spec == Init /\ [][Next]_vars

SpecNoSurface == InitNoSurface /\ [][Next]_vars

\* ------------------------------------------------ the floating canvas on its own
\* The number of scrolls, drags and Return clicks in one run.
MaxMoves == 4

\* The positions a drag reports.
DragOffsets == {[x |-> x, y |-> y] : x \in -MaxDrag..MaxDrag, y \in -MaxDrag..MaxDrag}

\* The container scrolls out of view or back into view.
FloatObserver(isIntersecting) ==
    /\ events < MaxMoves
    /\ Float(observerCallback(Floating, isIntersecting), "observer")
    /\ UNCHANGED <<drawn, raf, effect, threw>>

\* onClick of "Return", a button the last render made only if it rendered
\* floating.
FloatReturn ==
    /\ events < MaxMoves
    /\ isFloating
    /\ Float(handleReturn(Floating), "handleReturn")
    /\ RenderClick

\* onDrag of the Draggable.
FloatDrag(d) ==
    /\ events < MaxMoves
    /\ Float(onDrag(Floating, d.x, d.y), "onDrag")
    /\ UNCHANGED <<drawn, raf, effect, threw>>

NextFloat ==
    \/ \E b \in BOOLEAN : FloatObserver(b)
    \/ FloatReturn
    \/ \E d \in DragOffsets : FloatDrag(d)
    \/ Commit
    \/ AnimationFrame

SpecFloat == Init /\ [][NextFloat]_vars

\* ------------------------------------------------- the functions on their own
\* Half the number of quarter-unit points at which sigmoid is sampled.
ArgGrid == 16

\* Arguments of sigmoid: quarter units up to ArgGrid / 4 either side of 0
\* (the network's own arguments lie within 4 of 0), the neighbours of 0,
\* 0.0002 either side of 0 (results within 2 * 10^-13 of a rounding tie of the
\* fourth decimal), larger arguments, and the two places where the binary64
\* result becomes exactly 1 or exactly 0.
SigmoidArgs ==
    {k * (ArgScale \div 4) : k \in -ArgGrid..ArgGrid}
    \cup {-2, -1, 1, 2}
    \cup {-200, 200}
    \cup {10 * ArgScale, -10 * ArgScale, 30 * ArgScale, -30 * ArgScale,
          700 * ArgScale, -700 * ArgScale}
    \cup {AbsorbArg - 1, AbsorbArg, 1 - AbsorbArg, -AbsorbArg}
    \cup {ExpOverflowArg - 1, ExpOverflowArg, 1 - ExpOverflowArg, -ExpOverflowArg}

\* Weights given to getWeightColor: every slider value, and beyond the
\* slider's range by half a unit either side.
ColorWeights == -(Step + Step \div 2)..(Step + Step \div 2)

\* Two states whose output activation lies within 10^-12 of a rounding tie
\* of the fourth decimal: 0.24175000000009414 and 0.06675000000024395.
TieArgs ==
    {[inputs |-> [A |-> 41, B |-> 98],
      weights |-> ("A->H1" :> -59 @@ "A->H2" :> -19 @@ "B->H1" :> 16
                   @@ "B->H2" :> -20 @@ "H1->O" :> 4 @@ "H2->O" :> -64),
      biases |-> [H1 |-> -146, H2 |-> -167, O |-> -107]],
     [inputs |-> [A |-> 20, B |-> 49],
      weights |-> ("A->H1" :> 91 @@ "A->H2" :> -97 @@ "B->H1" :> 59
                   @@ "B->H2" :> -64 @@ "H1->O" :> -92 @@ "H2->O" :> 2),
      biases |-> [H1 |-> 59, H2 |-> -40, O |-> -196]]}

\* States given to calculateActivations: every combination of the ends of
\* the ranges, states with one value per group from inside the ranges, and
\* the states of TieArgs.
ActivationArgs ==
    {[inputs |-> i, weights |-> w, biases |-> b] :
        i \in [InputKeys -> {SliderMin("inputs"), SliderMax("inputs")}],
        w \in [WeightKeys -> {SliderMin("weights"), SliderMax("weights")}],
        b \in [BiasKeys -> {SliderMin("biases"), SliderMax("biases")}]}
    \cup
    {[inputs |-> [k \in InputKeys |-> i], weights |-> [k \in WeightKeys |-> w],
      biases |-> [k \in BiasKeys |-> b]] :
        i \in {0, 37, 100}, w \in {-100, -50, 0, 50, 100},
        b \in {-200, -75, 0, 75, 200}}
    \cup TieArgs

Probes ==
    {[fn |-> "sigmoid", done |-> FALSE, args |-> [x |-> x, y |-> y], out |-> <<>>] :
        x \in SigmoidArgs, y \in SigmoidArgs}
    \cup {[fn |-> "getWeightColor", done |-> FALSE, args |-> [weight |-> w],
           out |-> <<>>] : w \in ColorWeights}
    \cup {[fn |-> "calculateActivations", done |-> FALSE, args |-> a, out |-> <<>>] :
           a \in ActivationArgs}

InitFn == Mounted("ok") /\ probe \in Probes /\ order = NoOrder

ApplySigmoid ==
    /\ probe.fn = "sigmoid"
    /\ ~probe.done
    /\ probe' = [probe EXCEPT !.done = TRUE,
                              !.out = [x |-> sigmoid(probe.args.x),
                                       y |-> sigmoid(probe.args.y)]]
    /\ UNCHANGED <<prog, order>>

ApplyWeightColor ==
    /\ probe.fn = "getWeightColor"
    /\ ~probe.done
    /\ probe' = [probe EXCEPT !.done = TRUE,
                              !.out = getWeightColor(probe.args.weight)]
    /\ UNCHANGED <<prog, order>>

ApplyActivations ==
    /\ probe.fn = "calculateActivations"
    /\ ~probe.done
    /\ probe' = [probe EXCEPT !.done = TRUE,
                              !.out = calculateActivations(probe.args.inputs,
                                                           probe.args.weights,
                                                           probe.args.biases)]
    /\ UNCHANGED <<prog, order>>

NextFn == ApplySigmoid \/ ApplyWeightColor \/ ApplyActivations

SpecFn == InitFn /\ [][NextFn]_vars

\* ------------------------------------------- two changes made in either order
\* One slider change: the group of the slider, its key and the new value.
SliderChanges ==
    UNION {{[group |-> g, key |-> k, value |-> v] :
               k \in (IF g = "inputs" THEN InputKeys
                      ELSE IF g = "weights" THEN WeightKeys ELSE BiasKeys),
               v \in SliderValues(g)} : g \in Setters}

\* The component as mounted, as the handlers see it.
MountedNet ==
    NetOf(InitialInputs, InitialWeights, InitialBiases, [s \in Setters |-> Idle],
          NoUpdates)

\* Two runs of the component from the mounted state.  Run ab makes change
\* c1 and then c2, run ba makes c2 and then c1, at the same two instants.
InitOrder ==
    /\ Mounted("ok")
    /\ probe = NoProbe
    /\ order \in {[made |-> 0, c1 |-> c, c2 |-> d, ab |-> MountedNet, ba |-> MountedNet] :
                    c \in SliderChanges, d \in SliderChanges}
    /\ <<order.c1.group, order.c1.key>> # <<order.c2.group, order.c2.key>>

CallFor(n, c) == debouncedCall(n, SliderSetter(c.group), c.key, c.value)

\* The user moves a slider: the next change of each run's order.
OrderChange ==
    /\ order.made < 2
    /\ order' = [order EXCEPT
                   !.made = @ + 1,
                   !.ab = CallFor(@, IF order.made = 0 THEN order.c1 ELSE order.c2),
                   !.ba = CallFor(@, IF order.made = 0 THEN order.c2 ELSE order.c1)]
    /\ UNCHANGED <<prog, probe>>

\* Time passes in both runs alike; a timer that is due fires first, and
\* React renders first.
OrderClock ==
    /\ order.made > 0
    /\ \E s \in Setters : order.ab.deb[s].pending \/ order.ba.deb[s].pending
    /\ \A s \in Setters : ~Due(order.ab, s) /\ ~Due(order.ba, s)
    /\ order.ab.updates = NoUpdates
    /\ order.ba.updates = NoUpdates
    /\ order' = [order EXCEPT !.ab = advance(@, Tick), !.ba = advance(@, Tick)]
    /\ UNCHANGED <<prog, probe>>

\* A timer fires in run ab, or in run ba.
OrderExpiredAB(setter) ==
    /\ order.made > 0
    /\ Due(order.ab, setter)
    /\ order' = [order EXCEPT !.ab = invokeFunc(@, setter)]
    /\ UNCHANGED <<prog, probe>>

OrderExpiredBA(setter) ==
    /\ order.made > 0
    /\ Due(order.ba, setter)
    /\ order' = [order EXCEPT !.ba = invokeFunc(@, setter)]
    /\ UNCHANGED <<prog, probe>>

\* React renders the queued updates in run ab, or in run ba.
OrderRenderAB ==
    /\ order.made > 0
    /\ order.ab.updates # NoUpdates
    /\ order' = [order EXCEPT !.ab = processUpdates(@)]
    /\ UNCHANGED <<prog, probe>>

OrderRenderBA ==
    /\ order.made > 0
    /\ order.ba.updates # NoUpdates
    /\ order' = [order EXCEPT !.ba = processUpdates(@)]
    /\ UNCHANGED <<prog, probe>>

NextOrder ==
    \/ OrderChange
    \/ OrderClock
    \/ \E s \in Setters : OrderExpiredAB(s)
    \/ \E s \in Setters : OrderExpiredBA(s)
    \/ OrderRenderAB
    \/ OrderRenderBA

SpecOrder == InitOrder /\ [][NextOrder]_vars

\* Both changes were made and every update has been applied, in both runs.
OrderSettled ==
    /\ order.made = 2
    /\ \A s \in Setters : ~order.ab.deb[s].pending /\ ~order.ba.deb[s].pending
    /\ order.ab.updates = NoUpdates
    /\ order.ba.updates = NoUpdates

\* ------------------------------------------------------------------ claims
\* C1: in every reachable state the activations held by the component are
\* the feed-forward function of the current inputs, weights and biases
\* (H1 and H2 from the inputs, O from H1 and H2), never left over from an
\* earlier state; in the default state H1 = H2 = 0.5 and O = sigmoid(0.5),
\* which is 0.6225 to four decimals.  It holds after mounting, and every
\* step that changes the state or the activations establishes it again.
ActivationsAreOf(act, inp, wts, bs) ==
    /\ act = calculateActivations(inp, wts, bs)
    /\ (inp = InitialInputs /\ wts = InitialWeights /\ bs = InitialBiases)
       => /\ act.H1 = ONE \div 2
          /\ act.H2 = ONE \div 2
          /\ act.O = sigmoid(ArgScale \div 2)
          /\ act.O = 6225

C1_ActivationsAreCurrent ==
    /\ ActivationsAreOf(activations, inputs, weights, biases)
    /\ [][<<inputs, weights, biases, activations>>'
              # <<inputs, weights, biases, activations>>
          => ActivationsAreOf(activations', inputs', weights', biases')]_vars

\* React has rendered a debounced update that changed a bias alone, and the
\* activations moved away from their default values.
C1_Witness ==
    /\ hist.op = "commit"
    /\ hist.changed
    /\ biases["H1"] = 200
    /\ inputs = InitialInputs
    /\ weights = InitialWeights
    /\ activations.H1 > ONE \div 2
    /\ activations.O > 6225

\* C2: the state right after resetAll is exactly the documented defaults,
\* inputs A = B = 0, the six weights 0.5, the three biases 0, whatever the
\* state was before.
C2_ResetRestoresDefaults ==
    hist.op = "resetAll" =>
        /\ inputs = [k \in {"A", "B"} |-> 0]
        /\ weights = [k \in {"A->H1", "A->H2", "B->H1", "B->H2", "H1->O", "H2->O"}
                        |-> 50]
        /\ biases = [k \in {"H1", "H2", "O"} |-> 0]

\* resetAll has just run from a state that was not the default state.
C2_Witness == hist.op = "resetAll" /\ hist.changed

\* C3: two slider changes on two different controls, made at the same two
\* instants in either order, leave the same inputs, weights and biases, and
\* so the same activations, once every update has been applied.
C3_OrderIndependent ==
    OrderSettled =>
        /\ order.ab.inputs = order.ba.inputs
        /\ order.ab.weights = order.ba.weights
        /\ order.ab.biases = order.ba.biases
        /\ calculateActivations(order.ab.inputs, order.ab.weights, order.ab.biases)
             = calculateActivations(order.ba.inputs, order.ba.weights,
                                    order.ba.biases)

\* C4: in every reachable state both inputs lie in [0,1], the six weights in
\* [-1,1] and the three biases in [-2,2] (in hundredths).
C4_ValuesInRange ==
    /\ \A k \in DOMAIN inputs : inputs[k] \in 0..100
    /\ \A k \in DOMAIN weights : weights[k] \in -100..100
    /\ \A k \in DOMAIN biases : biases[k] \in -200..200

\* Debounced updates have put a weight and a bias on the ends of their
\* ranges.
C4_Witness ==
    /\ hist.op = "commit"
    /\ \E k \in DOMAIN weights : weights[k] = -100
    /\ \E k \in DOMAIN biases : biases[k] = 200

\* C7: the topology never changes: weights, biases and inputs always hold
\* exactly their six, three and two keys.
C7_TopologyFixed ==
    /\ DOMAIN weights = {"A->H1", "A->H2", "B->H1", "B->H2", "H1->O", "H2->O"}
    /\ DOMAIN biases = {"H1", "H2", "O"}
    /\ DOMAIN inputs = {"A", "B"}

\* Debounced updates of a bias and of a weight have changed their values.
C7_Witness ==
    /\ hist.op = "commit"
    /\ hist.changed
    /\ \E k \in DOMAIN biases : biases[k] # 0
    /\ \E k \in DOMAIN weights : weights[k] # 50

\* C9: with the drawing surface missing (canvas ref null, or no 2d context)
\* drawNetwork draws nothing and raises no error, whether called by the
\* effect or by the animation frame, and the frame's call leaves inputs,
\* weights, biases, the floating flag and the drag position, rendered or
\* queued, unchanged.
C9_MissingSurfaceIsNoOp ==
    /\ [](surface # "ok" => (drawn = Blank /\ ~threw))
    /\ [][(surface # "ok" /\ hist'.op = "frame") =>
            /\ drawn' = drawn
            /\ threw' = threw
            /\ UNCHANGED <<inputs, weights, biases, isFloating, dragPosition,
                           floatUpdates>>]_vars

\* Without a 2d context, the state was changed, drawNetwork ran from the
\* effect and again from the animation frame, and the canvas is untouched.
C9_Witness ==
    /\ surface = "nocontext"
    /\ hist.op = "frame"
    /\ inputs # InitialInputs
    /\ drawn = Blank

\* The state object a setter updates.
StateOf(setter, inp, wts, bs) ==
    IF setter = "inputs" THEN inp ELSE IF setter = "weights" THEN wts ELSE bs

\* C10: debounce supersedes previous.  The state objects change only when
\* React renders the update of a debounced setter's func (or on reset); func
\* is invoked only when 100 ms have passed since the setter's last call,
\* once per burst, and the update it makes is the (key, value) of the last
\* call and nothing else; a call not yet applied is always waiting, and is
\* due once its 100 ms have passed.
C10_DebounceSupersedes ==
    /\ [][/\ (inputs' # inputs \/ weights' # weights \/ biases' # biases)
              => hist'.op \in {"commit", "resetAll"}
          /\ hist'.op = "invoke" =>
                LET s == hist'.setter
                IN  /\ burst[s].called
                    /\ burst[s].age >= Wait
                    /\ burst[s].invoked = 0
                    /\ updates[s] = <<>>
                    /\ updates'[s] = <<[key |-> burst[s].key,
                                        value |-> burst[s].value]>>
                    /\ \A o \in Setters \ {s} : updates'[o] = updates[o]
          /\ hist'.op = "commit" =>
                /\ updates' = NoUpdates
                /\ \A s \in Setters :
                      StateOf(s, inputs', weights', biases')
                        = IF updates[s] = <<>>
                          THEN StateOf(s, inputs, weights, biases)
                          ELSE SetKey(StateOf(s, inputs, weights, biases),
                                      updates[s][1].key, updates[s][1].value)]_vars
    /\ [](\A s \in Setters :
            (burst[s].called /\ burst[s].invoked = 0) =>
                /\ deb[s].pending
                /\ burst[s].age >= Wait => Due(Net, s))

\* A call superseded a waiting call of the same setter, 100 ms passed, func
\* has been invoked once, and React has rendered its update, changing the
\* state.
C10_Witness ==
    /\ hist.op = "commit"
    /\ hist.changed
    /\ \E s \in Setters :
          /\ burst[s].superseded
          /\ burst[s].invoked = 1
          /\ StateOf(s, inputs, weights, biases)[burst[s].key] = burst[s].value

\* C5: for every combination of inputs in [0,1], weights in [-1,1] and
\* biases in [-2,2], every combination of the ends of the ranges included,
\* each of H1, H2, O computed by calculateActivations is a number in [0,1].
C5_ActivationsInUnitInterval ==
    (probe.fn = "calculateActivations" /\ probe.done) =>
        \A k \in {"H1", "H2", "O"} : probe.out[k] \in 0..ONE

\* calculateActivations has run with every value at the upper end of its
\* range, and all three activations came out above 0.9.
C5_Witness ==
    /\ probe.fn = "calculateActivations"
    /\ probe.done
    /\ \A k \in InputKeys : probe.args.inputs[k] = 100
    /\ \A k \in WeightKeys : probe.args.weights[k] = 100
    /\ \A k \in BiasKeys : probe.args.biases[k] = 200
    /\ \A k \in {"H1", "H2", "O"} : probe.out[k] > 9 * (ONE \div 10)

\* C6 as stated: sigmoid(0) = 0.5, x < y implies sigmoid(x) <= sigmoid(y),
\* and the result is strictly between 0 and 1 for every x.
C6_Original ==
    (probe.fn = "sigmoid" /\ probe.done) =>
        /\ probe.args.x = 0 => probe.out.x = ONE \div 2
        /\ probe.args.x < probe.args.y => probe.out.x <= probe.out.y
        /\ 0 < probe.out.x /\ probe.out.x < ONE

\* C6 as amended: sigmoid(0) = 0.5; x < y implies sigmoid(x) <= sigmoid(y);
\* the result lies in [0,1] for every x, strictly between 0 and 1 exactly
\* when -709.782713 < x < 36.736801 (so for every argument within 4 of 0,
\* the network's own), 1 from there up and 0 from there down.
C6_SigmoidSaturates ==
    (probe.fn = "sigmoid" /\ probe.done) =>
        /\ probe.args.x = 0 => probe.out.x = ONE \div 2
        /\ probe.args.x < probe.args.y => probe.out.x <= probe.out.y
        /\ probe.out.x \in 0..ONE
        /\ (0 < probe.out.x /\ probe.out.x < ONE)
             <=> (-ExpOverflowArg < probe.args.x /\ probe.args.x < AbsorbArg)
        /\ probe.args.x >= AbsorbArg => probe.out.x = ONE
        /\ probe.args.x <= -ExpOverflowArg => probe.out.x = 0
        /\ Abs(probe.args.x) <= 4 * ArgScale
             => (0 < probe.out.x /\ probe.out.x < ONE)

\* sigmoid has run on x = -4 and y = 4, with results strictly inside (0,1)
\* and in that order.
C6_Witness ==
    /\ probe.fn = "sigmoid"
    /\ probe.done
    /\ probe.args.x = -4 * ArgScale
    /\ probe.args.y = 4 * ArgScale
    /\ 0 < probe.out.x
    /\ probe.out.x < ONE \div 2
    /\ probe.out.y > ONE \div 2
    /\ probe.out.y < ONE

\* C8 as stated: for every weight in [-1,1] the colour is green when the
\* weight is positive, red when it is negative, and its opacity is |w|
\* clamped to 1.
C8_Original ==
    (/\ probe.fn = "getWeightColor"
     /\ probe.done
     /\ probe.args.weight \in -100..100) =>
        /\ probe.args.weight > 0 =>
              (probe.out.r = 0 /\ probe.out.b = 0 /\ probe.out.g > 0)
        /\ probe.args.weight < 0 =>
              (probe.out.g = 0 /\ probe.out.b = 0 /\ probe.out.r > 0)
        /\ probe.out.a = Min(Abs(probe.args.weight), 100)

\* C8 as amended: for every weight other than 0 the colour is green when the
\* weight is positive, red when it is negative, with opacity |w| clamped to
\* 1; for the weight 0 it is the grey rgba(100, 100, 100, 0.5).
C8_WeightColor ==
    (probe.fn = "getWeightColor" /\ probe.done) =>
        /\ probe.args.weight > 0 =>
              /\ probe.out.r = 0 /\ probe.out.b = 0 /\ probe.out.g > 0
              /\ probe.out.a = Min(Abs(probe.args.weight), 100)
        /\ probe.args.weight < 0 =>
              /\ probe.out.g = 0 /\ probe.out.b = 0 /\ probe.out.r > 0
              /\ probe.out.a = Min(Abs(probe.args.weight), 100)
        /\ probe.args.weight = 0 =>
              probe.out = [r |-> 10000, g |-> 10000, b |-> 10000, a |-> 50]

\* getWeightColor has run on the weight -0.37 and returned a red of
\* opacity 0.37.
C8_Witness ==
    /\ probe.fn = "getWeightColor"
    /\ probe.done
    /\ probe.args.weight = -37
    /\ probe.out.r > 0
    /\ probe.out.g = 0
    /\ probe.out.a = 37

\* C11: once Reset to Defaults was pressed, and for as long as no slider is
\* moved after it, the inputs, weights and biases are the documented
\* defaults; an update that was still waiting in its debounce timer when
\* Reset was pressed does not change them.
C11_ResetIsFinal ==
    user.afterReset =>
        /\ inputs = InitialInputs
        /\ weights = InitialWeights
        /\ biases = InitialBiases

\* C12: for every control (each of the 2 inputs, 6 weights and 3 biases)
\* that the user moved and that no reset followed, the value held in state
\* eventually equals the last value set on that control's slider: once the
\* user has stopped and no debounced update is waiting or queued, the state
\* holds that value, also when other sliders were moved within 100 ms of it.
C12_LastValueArrives ==
    ((\A s \in Setters : ~deb[s].pending) /\ updates = NoUpdates)
    => \A c \in DOMAIN user.lastSet :
          StateOf(c[1], inputs, weights, biases)[c[2]] = user.lastSet[c]

\* C13: every committed change of inputs, weights or biases is followed by
\* a redraw from the new state (once the effect of the commit has run, the
\* canvas shows the current state), and no draw computed from an older
\* state runs after a newer state has been committed: an animation frame
\* that executes draws the current state, because the frame requested for a
\* superseded state was cancelled before it could execute.
C13_DrawsAreCurrent ==
    [][/\ hist'.op = "frame" => raf.snap = Current'
       /\ ~effect' => drawn' = Picture(Current')]_vars

\* C14: every time the canvas switches from inline to floating mode its
\* drag offset is (0,0), whether it last left floating mode through the
\* Return button or because the container scrolled back into view; and a
\* drag event received while not floating never changes the stored drag
\* offset.  The canvas switches to floating mode in the render that commits
\* isFloating = true; a drag event is received while not floating when the
\* last render has isFloating = false, and then nothing is stored and
\* nothing is queued to be stored.
C14_FloatsAtOrigin ==
    [][/\ (~isFloating /\ isFloating') => dragPosition' = [x |-> 0, y |-> 0]
       /\ (~isFloating /\ hist'.op = "onDrag") =>
              /\ dragPosition' = dragPosition
              /\ floatUpdates' = floatUpdates]_vars

====
